---- MODULE Spec2Model ----
(***************************************************************************)
(* Model of app.py (CogniSynth research agent): one Streamlit script run   *)
(* per form interaction.  A Python string is a sequence of chunks, each    *)
(* chunk a character or a fixed literal of the source; concatenation is    *)
(* \o, str.strip() removes whitespace chunks at both ends, `lit in s` is   *)
(* membership of the literal's chunk.                                      *)
(***************************************************************************)
EXTENDS Integers, Sequences, FiniteSets, TLC

VARIABLES
    secrets,              \* keys present in st.secrets (environment of the session)
    tavily_defined,       \* the global `tavily` is bound (line 46 was reached)
    genai_configured,     \* genai.configure ran (line 45)
    startup_errors,       \* st.error calls of line 48 in this script run
    pc,                   \* position of the script run
    topic,                \* form field (line 138)
    data_points_text,     \* form field (line 139)
    use_elite_sources,    \* form toggle (line 143)
    submitted,            \* form_submit_button (line 144)
    validation_error,     \* st.error of line 150 was shown
    data_points_to_find,  \* line 152
    i,                    \* 1-based position of the for loop of line 161
    search_results,       \* line 163, the result records' urls
    j,                    \* 1-based position of the for loop of line 167
    found_info,           \* line 165
    results_list,         \* line 157
    all_visuals,          \* line 158
    results_df,           \* line 185
    summary,              \* line 190
    rendered_table,       \* the table given to st.data_editor (line 203)
    search_calls,         \* the query argument of each perform_search call of this run
    tavily_queries,       \* the query of each tavily.search request of this run
    attempted,            \* the scrape_and_extract calls (url, returned text) made for
                          \* the data point being resolved
    summary_calls,        \* the data_df argument of each generate_elaborate_summary call
    failed_searches,      \* positions of the data points whose search raised in the try
    summary_failed        \* generate_content raised inside generate_elaborate_summary

vars == <<secrets, tavily_defined, genai_configured, startup_errors, pc,
          topic, data_points_text, use_elite_sources, submitted, validation_error,
          data_points_to_find, i, search_results, j, found_info, results_list,
          all_visuals, results_df, summary, rendered_table, search_calls,
          tavily_queries, attempted, summary_calls, failed_searches, summary_failed>>

-----------------------------------------------------------------------------
(* Bounds of the model *)

NumURLs == 2
ImagesPerPage == 6
MaxTextLen == 4

(* Program constants *)

max_results == 3
MaxRelevantImages == 2
MaxScannedImages == 5
MaxDisplayColumns == 3

-----------------------------------------------------------------------------
(* Python strings *)

\* the characters str.strip() removes (those with str.isspace()); a character that has
\* no escape in a TLA+ string is the chunk named by its code point
Whitespace ==
    {" ", "\f", "\n", "\r", "\t", "U+000B", "U+001C", "U+001D", "U+001E", "U+001F",
     "U+0085", "U+00A0", "U+1680", "U+2000", "U+2001", "U+2002", "U+2003", "U+2004",
     "U+2005", "U+2006", "U+2007", "U+2008", "U+2009", "U+200A", "U+2028", "U+2029",
     "U+202F", "U+205F", "U+3000"}

NotFoundSentinel == "Information Not Found"
FailedSentinel == "Extraction Failed"
PlaceholderFinding == <<"Could not find in top search results">>
NoSource == "N/A"
EliteClause == " site:mckinsey.com OR site:bcg.com OR site:bain.com OR site:deloitte.com OR site:ey.com OR site:pwc.com OR site:hbr.org OR site:gartner.com"
SummaryErrorPrefix == "Error generating summary: "

Contains(s, lit) == \E k \in 1..Len(s) : s[k] = lit

RECURSIVE LStrip(_)
LStrip(s) == IF s # <<>> /\ Head(s) \in Whitespace THEN LStrip(Tail(s)) ELSE s

RECURSIVE RStrip(_)
RStrip(s) ==
    IF s # <<>> /\ s[Len(s)] \in Whitespace THEN RStrip(SubSeq(s, 1, Len(s) - 1)) ELSE s

Strip(s) == RStrip(LStrip(s))

FirstNewline(s) == CHOOSE k \in 1..Len(s) : s[k] = "\n" /\ \A m \in 1..(k - 1) : s[m] # "\n"

RECURSIVE SplitLines(_)
SplitLines(s) ==
    IF ~Contains(s, "\n") THEN <<s>>
    ELSE LET k == FirstNewline(s)
         IN  <<SubSeq(s, 1, k - 1)>> \o SplitLines(SubSeq(s, k + 1, Len(s)))

RECURSIVE StripKeepingBlankLines(_)
StripKeepingBlankLines(lines) ==
    IF lines = <<>> THEN <<>>
    ELSE <<Strip(Head(lines))>> \o StripKeepingBlankLines(Tail(lines))

RECURSIVE StripAndDrop(_)
StripAndDrop(lines) ==
    IF lines = <<>> THEN <<>>
    ELSE IF Strip(Head(lines)) # <<>>
         THEN <<Strip(Head(lines))>> \o StripAndDrop(Tail(lines))
         ELSE StripAndDrop(Tail(lines))

ParseDataPoints(text) == StripAndDrop(SplitLines(text))

Truthy(s) == s # <<>>

-----------------------------------------------------------------------------
(* Inputs of the form and answers of the external services *)

Topics == {<<>>, <<"X">>}

ExampleText == <<"A", "\n", "\n", " ", " ", "B", " ", " ", "\n">>

Texts == {<<>>, <<" ", "\n", "\f">>, <<"P", "1">>, ExampleText}

\* the value= arguments of the text widgets (lines 138-141), returned while the form is
\* untouched (the toggle's is True, line 143)
DefaultTopic == <<"The impact of AI on the global banking sector">>

DefaultText ==
    <<"Projected market size of AI in banking by 2030", "\n",
      "Key areas of AI adoption (e.g., fraud detection, customer service)", "\n",
      "Main challenges for AI implementation in banks", "\n",
      "Regulatory hurdles for AI in finance">>

URLPool == <<"https://a.example/r", "https://b.example/r", "https://c.example/r",
             "https://d.example/r">>

URLs == {URLPool[n] : n \in 1..NumURLs}

SeqsUpTo(S, n) == UNION {[1..m -> S] : m \in 0..n}

\* tavily.search: an exception, or response['results'] as the records' urls
SearchResponses ==
    {[raised |-> TRUE, results |-> <<>>]}
        \cup {[raised |-> FALSE, results |-> r] : r \in SeqsUpTo(URLs, max_results)}

\* requests.get + generate_content of scrape_and_extract: an exception, or ai_response.text
ModelTexts ==
    {<<" ", "42", "\n">>, <<NotFoundSentinel>>, <<NotFoundSentinel, ".">>}

PageResponses ==
    {[raised |-> TRUE, text |-> <<>>]} \cup {[raised |-> FALSE, text |-> t] : t \in ModelTexts}

\* find_relevant_images: an exception of the page fetch, or the page's <img> tags in
\* page order, each with whether it passes lines 89-110 (it has a src, the image
\* loads and the model's answer contains "yes"); the k-th tag's absolute src is <<url, k>>
ImageResponses ==
    {[raised |-> TRUE, images |-> <<>>]}
        \cup {[raised |-> FALSE, images |-> f] : f \in [1..ImagesPerPage -> BOOLEAN]}

\* generate_content of generate_elaborate_summary: an exception e, or response.text
SummaryResponses ==
    {[raised |-> TRUE, error |-> "quota exceeded", text |-> <<>>],
     [raised |-> FALSE, error |-> "", text |-> <<"Key Insights", "\n">>]}

-----------------------------------------------------------------------------
(* The functions of app.py.  A function that can let an exception escape   *)
(* returns [raised, value]; a caller that gets raised = TRUE stops the     *)
(* script run (pc = "crashed").                                            *)

\* lines 53-55
SearchQueryAlwaysElite(query, elite) == query \o <<EliteClause>>
SearchQuery(query, elite) == IF elite THEN query \o <<EliteClause>> ELSE query

\* lines 52-60; client_bound: the global tavily exists (else NameError inside the try)
perform_search_uncaught(client_bound, resp) ==
    IF ~client_bound \/ resp.raised
    THEN [raised |-> TRUE, value |-> <<>>]
    ELSE [raised |-> FALSE, value |-> resp.results]
perform_search(client_bound, resp) ==
    IF ~client_bound \/ resp.raised
    THEN [raised |-> FALSE, value |-> <<>>]
    ELSE [raised |-> FALSE, value |-> resp.results]

\* lines 62-74
scrape_and_extract(resp) ==
    IF resp.raised THEN <<FailedSentinel>> ELSE Strip(resp.text)

\* line 171
UsableOnlyNotFound(extracted_info) == ~Contains(extracted_info, NotFoundSentinel)
Usable(extracted_info) ==
    ~Contains(extracted_info, NotFoundSentinel) /\ ~Contains(extracted_info, FailedSentinel)

\* lines 88-116: the first five tags are visited in order, a passing one is appended,
\* and the loop is left when two are collected
RECURSIVE ScanImages(_, _, _, _)
ScanImages(url, images, k, relevant_images) ==
    IF k > Len(images) \/ k > MaxScannedImages THEN relevant_images
    ELSE IF images[k]
         THEN IF Len(relevant_images) + 1 >= MaxRelevantImages
              THEN Append(relevant_images, <<url, k>>)
              ELSE ScanImages(url, images, k + 1, Append(relevant_images, <<url, k>>))
         ELSE ScanImages(url, images, k + 1, relevant_images)

\* lines 77-119
find_relevant_images(url, resp) ==
    IF resp.raised THEN <<>> ELSE ScanImages(url, resp.images, 1, <<>>)

\* line 172
FoundRow(point, extracted_info, url) ==
    [DataPoint |-> point, Finding |-> extracted_info, SourceURL |-> url]

\* line 180
PlaceholderRowEmptySource(point) ==
    [DataPoint |-> point, Finding |-> PlaceholderFinding, SourceURL |-> ""]
PlaceholderRow(point) ==
    [DataPoint |-> point, Finding |-> PlaceholderFinding, SourceURL |-> NoSource]

\* line 179
NeedsPlaceholderAlways(found) == TRUE
NeedsPlaceholder(found) == ~found

\* line 161: the for loop is over when every element was visited
LoopDoneEarly(k, points) == k >= Len(points)
LoopDone(k, points) == k > Len(points)

\* line 185: pd.DataFrame of a list of dicts; an empty list gives no columns
DataFrame(rows) ==
    [columns |-> IF rows = <<>> THEN <<>> ELSE <<"Data Point", "Finding", "Source URL">>,
     rows |-> rows]

\* lines 121-130
generate_elaborate_summary_uncaught(resp) ==
    IF resp.raised
    THEN [raised |-> TRUE, value |-> <<>>]
    ELSE [raised |-> FALSE, value |-> Strip(resp.text)]
generate_elaborate_summary(resp) ==
    IF resp.raised
    THEN [raised |-> FALSE, value |-> <<SummaryErrorPrefix, resp.error>>]
    ELSE [raised |-> FALSE, value |-> Strip(resp.text)]

\* line 149
InputRejected(t, text) == ~Truthy(t) \/ ~Truthy(text)

\* lines 193-199: st.columns(n if n < 4 else 3), image k goes to cols[k % 3]
Range(s) == {s[k] : k \in 1..Len(s)}
NumColumns(n) == IF n < 4 THEN n ELSE MaxDisplayColumns
VisualsRenderOk(visuals) ==
    LET n == Cardinality(Range(visuals))
    IN  \A k \in 0..(n - 1) : (k % MaxDisplayColumns) < NumColumns(n)

-----------------------------------------------------------------------------
(* The script run *)

FreshRun ==
    /\ tavily_defined = FALSE
    /\ genai_configured = FALSE
    /\ startup_errors = 0
    /\ pc = "startup"
    /\ topic = <<>>
    /\ data_points_text = <<>>
    /\ use_elite_sources = FALSE
    /\ submitted = FALSE
    /\ validation_error = FALSE
    /\ data_points_to_find = <<>>
    /\ i = 0
    /\ search_results = <<>>
    /\ j = 0
    /\ found_info = FALSE
    /\ results_list = <<>>
    /\ all_visuals = <<>>
    /\ results_df = DataFrame(<<>>)
    /\ summary = <<>>
    /\ rendered_table = <<>>
    /\ search_calls = <<>>
    /\ tavily_queries = <<>>
    /\ attempted = <<>>
    /\ summary_calls = <<>>
    /\ failed_searches = {}
    /\ summary_failed = FALSE

\* the same values, as the next state
FreshRunNext ==
    /\ tavily_defined' = FALSE
    /\ genai_configured' = FALSE
    /\ startup_errors' = 0
    /\ pc' = "startup"
    /\ topic' = <<>>
    /\ data_points_text' = <<>>
    /\ use_elite_sources' = FALSE
    /\ submitted' = FALSE
    /\ validation_error' = FALSE
    /\ data_points_to_find' = <<>>
    /\ i' = 0
    /\ search_results' = <<>>
    /\ j' = 0
    /\ found_info' = FALSE
    /\ results_list' = <<>>
    /\ all_visuals' = <<>>
    /\ results_df' = DataFrame(<<>>)
    /\ summary' = <<>>
    /\ rendered_table' = <<>>
    /\ search_calls' = <<>>
    /\ tavily_queries' = <<>>
    /\ attempted' = <<>>
    /\ summary_calls' = <<>>
    /\ failed_searches' = {}
    /\ summary_failed' = FALSE

Init ==
    /\ secrets \in SUBSET {"GOOGLE_API_KEY", "TAVILY_API_KEY"}
    /\ FreshRun

\* lines 42-48: the first missing key raises at its line, the except reports and
\* the script goes on
APIConfiguration ==
    /\ pc = "startup"
    /\ genai_configured' = ({"GOOGLE_API_KEY", "TAVILY_API_KEY"} \subseteq secrets)
    /\ tavily_defined' = ({"GOOGLE_API_KEY", "TAVILY_API_KEY"} \subseteq secrets)
    /\ startup_errors' =
           IF {"GOOGLE_API_KEY", "TAVILY_API_KEY"} \subseteq secrets
           THEN startup_errors ELSE startup_errors + 1
    /\ pc' = "form"
    /\ UNCHANGED <<secrets, topic, data_points_text, use_elite_sources, submitted,
                   validation_error, data_points_to_find, i, search_results, j,
                   found_info, results_list, all_visuals, results_df, summary,
                   rendered_table, search_calls, tavily_queries, attempted,
                   summary_calls,
                   failed_searches, summary_failed>>

\* lines 137-144, 148: the form is submitted with its three fields
SubmitForm ==
    /\ pc = "form"
    /\ \E t \in Topics, text \in Texts, elite \in BOOLEAN :
          /\ topic' = t
          /\ data_points_text' = text
          /\ use_elite_sources' = elite
    /\ submitted' = TRUE
    /\ pc' = "validate"
    /\ UNCHANGED <<secrets, tavily_defined, genai_configured, startup_errors,
                   validation_error, data_points_to_find, i, search_results, j,
                   found_info, results_list, all_visuals, results_df, summary,
                   rendered_table, search_calls, tavily_queries, attempted,
                   summary_calls,
                   failed_searches, summary_failed>>

\* lines 137-144, 204-205: a script run without a submission; the widgets return the
\* fields as they stand (the defaults while untouched) and the button returns False
RenderIdle ==
    /\ pc = "form"
    /\ \E t \in Topics \cup {DefaultTopic}, text \in Texts \cup {DefaultText},
          elite \in BOOLEAN :
          /\ topic' = t
          /\ data_points_text' = text
          /\ use_elite_sources' = elite
    /\ submitted' = FALSE
    /\ pc' = "done"
    /\ UNCHANGED <<secrets, tavily_defined, genai_configured, startup_errors,
                   validation_error, data_points_to_find, i, search_results, j,
                   found_info, results_list, all_visuals, results_df, summary,
                   rendered_table, search_calls, tavily_queries, attempted,
                   summary_calls, failed_searches, summary_failed>>

\* lines 149-158
Validate ==
    /\ pc = "validate"
    /\ IF InputRejected(topic, data_points_text)
       THEN /\ validation_error' = TRUE
            /\ pc' = "done"
            /\ UNCHANGED <<data_points_to_find, i>>
       ELSE /\ data_points_to_find' = ParseDataPoints(data_points_text)
            /\ i' = 1
            /\ pc' = "loop"
            /\ UNCHANGED validation_error
    /\ UNCHANGED <<secrets, tavily_defined, genai_configured, startup_errors,
                   topic, data_points_text, use_elite_sources, submitted,
                   search_results, j, found_info, results_list, all_visuals,
                   results_df, summary, rendered_table, search_calls, tavily_queries,
                   attempted, summary_calls,
                   failed_searches, summary_failed>>

\* lines 161-166: the next data point is searched for
SearchPoint ==
    /\ pc = "loop"
    /\ ~LoopDone(i, data_points_to_find)
    /\ \E resp \in SearchResponses :
          LET query == topic \o <<" ">> \o data_points_to_find[i]
              got == perform_search(tavily_defined, resp)
          IN  /\ search_calls' = Append(search_calls, query)
              /\ tavily_queries' =
                     IF tavily_defined
                     THEN Append(tavily_queries, SearchQuery(query, use_elite_sources))
                     ELSE tavily_queries
              /\ failed_searches' =
                     IF ~tavily_defined \/ resp.raised
                     THEN failed_searches \cup {i} ELSE failed_searches
              /\ IF got.raised
                 THEN /\ pc' = "crashed"
                      /\ UNCHANGED <<search_results, j, found_info, attempted>>
                 ELSE /\ search_results' = got.value
                      /\ j' = 1
                      /\ found_info' = FALSE
                      /\ attempted' = <<>>
                      /\ pc' = "urls"
    /\ UNCHANGED <<secrets, tavily_defined, genai_configured, startup_errors,
                   topic, data_points_text, use_elite_sources, submitted,
                   validation_error, data_points_to_find, i, results_list, all_visuals,
                   results_df, summary, rendered_table, summary_calls,
                   summary_failed>>

\* lines 167-177: one result url is scraped; a usable answer is recorded, its page is
\* scanned for images and the loop over the urls is left
TryURL ==
    /\ pc = "urls"
    /\ j <= Len(search_results)
    /\ \E resp \in PageResponses :
          LET url == search_results[j]
              extracted_info == scrape_and_extract(resp)
          IN  /\ attempted' = Append(attempted, [url |-> url, extracted |-> extracted_info])
              /\ IF Usable(extracted_info)
                 THEN /\ results_list' =
                            Append(results_list,
                                   FoundRow(data_points_to_find[i], extracted_info, url))
                      /\ \E imgs \in ImageResponses :
                            all_visuals' = all_visuals \o find_relevant_images(url, imgs)
                      /\ found_info' = TRUE
                      /\ pc' = "resolve"
                      /\ UNCHANGED j
                 ELSE /\ j' = j + 1
                      /\ UNCHANGED <<results_list, all_visuals, found_info, pc>>
    /\ UNCHANGED <<secrets, tavily_defined, genai_configured, startup_errors,
                   topic, data_points_text, use_elite_sources, submitted,
                   validation_error, data_points_to_find, i, search_results,
                   results_df, summary, rendered_table, search_calls, tavily_queries,
                   summary_calls,
                   failed_searches, summary_failed>>

\* line 167 with no url left (or line 166 false)
URLsExhausted ==
    /\ pc = "urls"
    /\ j > Len(search_results)
    /\ pc' = "resolve"
    /\ UNCHANGED <<secrets, tavily_defined, genai_configured, startup_errors,
                   topic, data_points_text, use_elite_sources, submitted,
                   validation_error, data_points_to_find, i, search_results, j,
                   found_info, results_list, all_visuals, results_df, summary,
                   rendered_table, search_calls, tavily_queries, attempted,
                   summary_calls,
                   failed_searches, summary_failed>>

\* lines 179-180, then the next iteration of line 161
ResolvePoint ==
    /\ pc = "resolve"
    /\ results_list' =
           IF NeedsPlaceholder(found_info)
           THEN Append(results_list, PlaceholderRow(data_points_to_find[i]))
           ELSE results_list
    /\ i' = i + 1
    /\ attempted' = <<>>
    /\ pc' = "loop"
    /\ UNCHANGED <<secrets, tavily_defined, genai_configured, startup_errors,
                   topic, data_points_text, use_elite_sources, submitted,
                   validation_error, data_points_to_find, search_results, j,
                   found_info, all_visuals, results_df, summary, rendered_table,
                   search_calls, tavily_queries, summary_calls,
                   failed_searches, summary_failed>>

\* lines 182-191
Summarize ==
    /\ pc = "loop"
    /\ LoopDone(i, data_points_to_find)
    /\ results_df' = DataFrame(results_list)
    /\ summary_calls' = Append(summary_calls, DataFrame(results_list))
    /\ \E resp \in SummaryResponses :
          LET got == generate_elaborate_summary(resp)
          IN  /\ summary_failed' = resp.raised
              /\ IF got.raised
                 THEN /\ pc' = "crashed"
                      /\ UNCHANGED summary
                 ELSE /\ summary' = got.value
                      /\ pc' = "render"
    /\ UNCHANGED <<secrets, tavily_defined, genai_configured, startup_errors,
                   topic, data_points_text, use_elite_sources, submitted,
                   validation_error, data_points_to_find, i, search_results, j,
                   found_info, results_list, all_visuals, rendered_table,
                   search_calls, tavily_queries, attempted,
                   failed_searches>>

\* lines 193-203
RenderResults ==
    /\ pc = "render"
    /\ IF all_visuals = <<>> \/ VisualsRenderOk(all_visuals)
       THEN /\ rendered_table' = <<results_df>>
            /\ pc' = "done"
       ELSE /\ pc' = "crashed"
            /\ UNCHANGED rendered_table
    /\ UNCHANGED <<secrets, tavily_defined, genai_configured, startup_errors,
                   topic, data_points_text, use_elite_sources, submitted,
                   validation_error, data_points_to_find, i, search_results, j,
                   found_info, results_list, all_visuals, results_df, summary,
                   search_calls, tavily_queries, attempted, summary_calls,
                   failed_searches, summary_failed>>

\* Streamlit runs the script again, from its first line, on the next interaction
Rerun ==
    /\ pc \in {"done", "crashed"}
    /\ UNCHANGED secrets
    /\ FreshRunNext

Next ==
    \/ APIConfiguration
    \/ SubmitForm
    \/ RenderIdle
    \/ Validate
    \/ SearchPoint
    \/ TryURL
    \/ URLsExhausted
    \/ ResolvePoint
    \/ Summarize
    \/ RenderResults
    \/ Rerun

Spec == Init /\ [][Next]_vars

-----------------------------------------------------------------------------
(* Line 152 on every short text: the run starts at the validation of a     *)
(* submitted form whose data-points field is any text over TextAlphabet.   *)

TextAlphabet == {"A", "B", " ", "\t", "\f", "U+00A0", "\n"}

AllTexts == SeqsUpTo(TextAlphabet, MaxTextLen) \cup {ExampleText}

InitParse ==
    /\ secrets = {"GOOGLE_API_KEY", "TAVILY_API_KEY"}
    /\ tavily_defined = TRUE
    /\ genai_configured = TRUE
    /\ startup_errors = 0
    /\ pc = "validate"
    /\ topic = <<"X">>
    /\ data_points_text \in AllTexts
    /\ use_elite_sources \in BOOLEAN
    /\ submitted = TRUE
    /\ validation_error = FALSE
    /\ data_points_to_find = <<>>
    /\ i = 0
    /\ search_results = <<>>
    /\ j = 0
    /\ found_info = FALSE
    /\ results_list = <<>>
    /\ all_visuals = <<>>
    /\ results_df = DataFrame(<<>>)
    /\ summary = <<>>
    /\ rendered_table = <<>>
    /\ search_calls = <<>>
    /\ tavily_queries = <<>>
    /\ attempted = <<>>
    /\ summary_calls = <<>>
    /\ failed_searches = {}
    /\ summary_failed = FALSE

SpecParse == InitParse /\ [][Validate]_vars

-----------------------------------------------------------------------------
(* Properties *)

Last(s) == s[Len(s)]

RowsMatchPoints(rows, n) ==
    /\ Len(rows) = n
    /\ n <= Len(data_points_to_find)
    /\ \A k \in 1..n : rows[k].DataPoint = data_points_to_find[k]

RunPassedValidation == submitted /\ pc \notin {"validate"} /\ ~validation_error

\* C1: in a run that passed validation the results list has one row per resolved data
\* point, row k carrying the k-th data point; k rows after the k-th point is resolved;
\* the table given to the summary and the table rendered have one row per data point,
\* in input order, and the run reaches the rendering (it never stops on an exception).
C1_OneFindingPerDataPoint ==
    /\ pc # "crashed"
    /\ pc \in {"loop", "urls"} => RowsMatchPoints(results_list, i - 1)
    /\ pc = "resolve" => RowsMatchPoints(results_list, IF found_info THEN i ELSE i - 1)
    /\ \A c \in 1..Len(summary_calls) :
          RowsMatchPoints(summary_calls[c].rows, Len(data_points_to_find))
    /\ \A c \in 1..Len(rendered_table) :
          RowsMatchPoints(rendered_table[c].rows, Len(data_points_to_find))
    /\ (pc = "done" /\ RunPassedValidation) =>
          Len(summary_calls) = 1 /\ rendered_table = <<summary_calls[1]>>

C1_Witness ==
    /\ pc = "done"
    /\ Len(data_points_to_find) = 2
    /\ Len(rendered_table) = 1
    /\ rendered_table[1].rows[1].SourceURL = "N/A"
    /\ rendered_table[1].rows[2].SourceURL # "N/A"

IsSentinel(text) == text = <<"Information Not Found">> \/ text = <<"Extraction Failed">>
NotASentinel(text) == ~IsSentinel(text)
ContainsNoSentinel(text) ==
    \A k \in 1..Len(text) : text[k] \notin {"Information Not Found", "Extraction Failed"}

\* what counts as a usable extraction: as_stated, any text other than the two
\* sentinel strings; otherwise, any text that contains neither
Accepted(as_stated, text) ==
    IF as_stated THEN NotASentinel(text) ELSE ContainsNoSentinel(text)

FirstMatchWins(as_stated) ==
    /\ (attempted' # attempted /\ attempted' # <<>>) =>
          /\ attempted' = SubSeq(attempted', 1, Len(attempted)) \o <<Last(attempted')>>
          /\ SubSeq(attempted', 1, Len(attempted)) = attempted
          /\ Len(attempted') <= Len(search_results)
          /\ \A k \in 1..Len(attempted') : attempted'[k].url = search_results[k]
          /\ \A k \in 1..Len(attempted) : ~Accepted(as_stated, attempted[k].extracted)
          /\ Len(results_list) = i - 1
          /\ IF Accepted(as_stated, Last(attempted').extracted)
             THEN /\ results_list' =
                        Append(results_list,
                               [DataPoint |-> data_points_to_find[i],
                                Finding |-> Last(attempted').extracted,
                                SourceURL |-> Last(attempted').url])
                  /\ pc' = "resolve"
             ELSE results_list' = results_list
    /\ (pc = "resolve" /\ Len(results_list) = i) =>
          /\ attempted # <<>>
          /\ Last(results_list).SourceURL = Last(attempted).url
          /\ attempted' = <<>>
          /\ i' = i + 1
          /\ pc' = "loop"

\* C2 as stated: the urls of a search are given to scrape_and_extract in result order;
\* the first extraction that is not one of the two sentinel strings is recorded as the
\* Finding with its url as source, and no later url is tried for that data point.
C2_Original == [][FirstMatchWins(TRUE)]_vars

\* C2, amended: the same with "the first extraction that contains neither sentinel
\* string" in place of "the first extraction that is neither sentinel string".
C2_FirstMatchWins == [][FirstMatchWins(FALSE)]_vars

C2_Witness ==
    /\ pc = "resolve"
    /\ found_info
    /\ Len(search_results) = 3
    /\ Len(attempted) = 2
    /\ attempted[1].extracted = <<"Extraction Failed">>
    /\ Last(results_list).SourceURL = search_results[2]
    /\ search_results[1] # search_results[2]

PlaceholderOnlyWhenNothingUsable(as_stated) ==
    /\ (pc = "resolve" /\ ~\E k \in 1..Len(attempted) : Accepted(as_stated, attempted[k].extracted)) =>
          results_list' =
              Append(results_list,
                     [DataPoint |-> data_points_to_find[i],
                      Finding |-> <<"Could not find in top search results">>,
                      SourceURL |-> "N/A"])
    /\ (results_list' # results_list /\ pc' # "startup") =>
          /\ Len(results_list') = Len(results_list) + 1
          /\ SubSeq(results_list', 1, Len(results_list)) = results_list
          /\ LET row == Last(results_list')
                 calls == IF pc = "resolve" THEN attempted ELSE attempted'
             IN  (row.SourceURL = "N/A") <=>
                    /\ Len(calls) = Len(search_results)
                    /\ \A k \in 1..Len(calls) : ~Accepted(as_stated, calls[k].extracted)

\* C3 as stated: a data point none of whose returned urls yields an extraction other
\* than a sentinel string (zero results included) gets the Finding "Could not find in
\* top search results" with source "N/A", and a row with source "N/A" is recorded only
\* for such a data point.
C3_Original == [][PlaceholderOnlyWhenNothingUsable(TRUE)]_vars

\* C3, amended: the same with "an extraction that contains neither sentinel string"
\* in place of "an extraction other than a sentinel string".
C3_PlaceholderRow == [][PlaceholderOnlyWhenNothingUsable(FALSE)]_vars

C3_Witness ==
    /\ pc = "loop"
    /\ i = 2
    /\ 1 \notin failed_searches
    /\ Len(search_results) = 2
    /\ results_list = <<[DataPoint |-> data_points_to_find[1],
                         Finding |-> <<"Could not find in top search results">>,
                         SourceURL |-> "N/A"]>>

\* C4: in a run that passed validation generate_elaborate_summary is called exactly
\* once; when it has been called every data point has its row and has been searched
\* for once, no extraction is under way, and its argument is the table of all rows.
C4_SummaryOnceOnCompleteTable ==
    /\ Len(summary_calls) <= 1
    /\ summary_calls # <<>> =>
          /\ pc \in {"render", "done"}
          /\ Len(search_calls) = Len(data_points_to_find)
          /\ attempted = <<>>
          /\ Len(results_list) = Len(data_points_to_find)
          /\ summary_calls[1].rows = results_list
    /\ (RunPassedValidation /\ pc \in {"render", "done", "crashed"}) => Len(summary_calls) = 1
    /\ (RunPassedValidation /\ pc = "loop" /\ i > Len(data_points_to_find)) =>
          summary_calls = <<>>

C4_Witness ==
    /\ pc = "render"
    /\ Len(summary_calls) = 1
    /\ Len(summary_calls[1].rows) = 2
    /\ \A k \in 1..2 : summary_calls[1].rows[k].SourceURL = "N/A"

\* C5: with a required credential absent nothing proceeds: no search, page fetch,
\* extraction or summary step is executed in that session.
C5_NothingProceedsWithoutCredentials ==
    ({"GOOGLE_API_KEY", "TAVILY_API_KEY"} \subseteq secrets) \/
        /\ search_calls = <<>>
        /\ attempted = <<>>
        /\ summary_calls = <<>>

ExpectedQuery(k) == topic \o <<" ">> \o data_points_to_find[k]

\* C6: every query sent to the search service in a run is "{topic} {data_point}" of
\* its data point, followed by the fixed site clause when the toggle is on and
\* unmodified when it is off, the toggle being the submitted one for all of them.
C6_EliteToggle ==
    /\ \A k \in 1..Len(search_calls) : search_calls[k] = ExpectedQuery(k)
    /\ tavily_defined => Len(tavily_queries) = Len(search_calls)
    /\ \A k \in 1..Len(tavily_queries) :
          IF use_elite_sources
          THEN tavily_queries[k] =
                   ExpectedQuery(k) \o <<" site:mckinsey.com OR site:bcg.com OR site:bain.com OR site:deloitte.com OR site:ey.com OR site:pwc.com OR site:hbr.org OR site:gartner.com">>
          ELSE tavily_queries[k] = ExpectedQuery(k)

C6_Witness ==
    /\ Len(tavily_queries) = 2
    /\ ~use_elite_sources
    /\ tavily_queries[2] = <<"X", " ", "B">>

\* the maximal pieces of a text that lie on one line and neither start nor end with
\* whitespace, as pairs of positions
BlankBetween(text, a, b) == \A m \in a..b : text[m] \in Whitespace \ {"\n"}
LineStart(text, a) ==
    \E s \in 1..a : (s = 1 \/ text[s - 1] = "\n") /\ BlankBetween(text, s, a - 1)
LineEnd(text, b) ==
    \E e \in b..Len(text) : (e = Len(text) \/ text[e + 1] = "\n") /\ BlankBetween(text, b + 1, e)
Pieces(text) ==
    {p \in (1..Len(text)) \X (1..Len(text)) :
        /\ p[1] <= p[2]
        /\ text[p[1]] \notin Whitespace
        /\ text[p[2]] \notin Whitespace
        /\ \A m \in p[1]..p[2] : text[m] # "\n"
        /\ LineStart(text, p[1])
        /\ LineEnd(text, p[2])}

\* C7: the data-point list is the text's lines, each stripped of surrounding
\* whitespace, without the lines that are then empty, in the text's order; no element
\* is empty or starts or ends with whitespace; "A\n\n  B  \n" gives ["A", "B"].
C7_DataPointsParsed ==
    pc = "loop" =>
        /\ Len(data_points_to_find) = Cardinality(Pieces(data_points_text))
        /\ \A p \in Pieces(data_points_text) :
              data_points_to_find[Cardinality({q \in Pieces(data_points_text) : q[1] <= p[1]})]
                  = SubSeq(data_points_text, p[1], p[2])
        /\ \A k \in 1..Len(data_points_to_find) :
              /\ data_points_to_find[k] # <<>>
              /\ Head(data_points_to_find[k]) \notin Whitespace
              /\ Last(data_points_to_find[k]) \notin Whitespace
        /\ data_points_text = <<"A", "\n", "\n", " ", " ", "B", " ", " ", "\n">> =>
              data_points_to_find = << <<"A">>, <<"B">> >>

C7_Witness ==
    /\ pc = "loop"
    /\ data_points_text = <<"A", "\n", "\n", " ", " ", "B", " ", " ", "\n">>
    /\ data_points_to_find = << <<"A">>, <<"B">> >>

\* C8: a search that raises counts as zero results: the run does not stop, the data
\* point gets the placeholder row, the next data point is processed and the summary
\* is called.
C8_FailedSearchIsZeroResults ==
    /\ pc # "crashed"
    /\ \A k \in failed_searches :
          /\ (k = i /\ pc \in {"urls", "resolve"}) =>
                search_results = <<>> /\ attempted = <<>> /\ ~found_info
          /\ k <= Len(results_list) =>
                results_list[k] =
                    [DataPoint |-> data_points_to_find[k],
                     Finding |-> <<"Could not find in top search results">>,
                     SourceURL |-> "N/A"]
          /\ pc \in {"render", "done"} =>
                Len(summary_calls) = 1 /\ k <= Len(summary_calls[1].rows)

C8_Witness ==
    /\ pc = "done"
    /\ tavily_defined
    /\ failed_searches = {1}
    /\ Len(results_list) = 2
    /\ results_list[2].SourceURL # "N/A"
    /\ Len(summary_calls) = 1

AllBlank(text) == \A k \in 1..Len(text) : text[k] \in Whitespace

\* C9: a search or a summary call happens only with a non-empty data-point list, and a
\* submission whose data-points text has no non-blank line is rejected with the error
\* of line 150.
C9_PipelineNeedsADataPoint ==
    /\ (search_calls # <<>> \/ summary_calls # <<>>) => data_points_to_find # <<>>
    /\ (submitted /\ pc # "validate" /\ AllBlank(data_points_text)) =>
          validation_error /\ pc = "done"

\* C10: when the model call of the summary raises, the run goes on: the summary is the
\* text "Error generating summary: ..." and the table rendered is the table that was
\* given to the summary call, one row per data point.
C10_SummaryFailureKeepsFindings ==
    summary_failed =>
        /\ pc \in {"render", "done"}
        /\ summary # <<>>
        /\ Head(summary) = "Error generating summary: "
        /\ Len(summary_calls) = 1
        /\ summary_calls[1].rows = results_list
        /\ pc = "done" =>
              /\ rendered_table = <<summary_calls[1]>>
              /\ Len(rendered_table[1].rows) = Len(data_points_to_find)

C10_Witness ==
    /\ summary_failed
    /\ pc = "done"
    /\ Len(rendered_table) = 1
    /\ Len(rendered_table[1].rows) = 2
    /\ rendered_table[1].rows[1].SourceURL # "N/A"

====
